---- MODULE Spec2Model ----
(***************************************************************************)
(* A model of the conversation demo: the conversation runner and the turn  *)
(* orchestrator of crew_main.py, with the agents they call (client,        *)
(* supervisor, speech recognizer, reply selector, transcript and log       *)
(* recorders) and the audio stitching and artifact index that close a run. *)
(*                                                                         *)
(* Texts are sequences of characters, one string per character.  A Hebrew  *)
(* letter is written by its Unicode name ("alef", "final_kaf"); every      *)
(* other character stands for itself.  Times are in milliseconds.  A       *)
(* Python dict is a function whose domain is the set of its keys.          *)
(***************************************************************************)
EXTENDS Integers, Sequences, FiniteSets, TLC

VARIABLES
    pc,            \* where the modelled code stands
    max_turns,     \* run_conversation's argument
    cs,            \* CustomerServiceAgent: use_openai, and whether litellm imported
    stt,           \* STTAgent: impl_name, and whether a model is loaded
    turn,          \* the loop variable of run_conversation
    client,        \* ClientAgent.turn
    meta,          \* run_turn's meta dict
    loc,           \* run_turn's locals: client_text, stt_text, reply_text
    run_meta,      \* run_meta["turns"]
    audio_paths,   \* run_conversation's audio_paths
    conversation,  \* TranscriptAgent.conversation
    logs,          \* LoggerAgent.logs
    files,         \* the output directory: path -> content
    post,          \* run_conversation's locals after the loop
    user_text,     \* the argument of the last call of CustomerServiceAgent.reply
    cs_resp,       \* what that call returned
    llm_call,      \* what litellm.completion and random.choice did in a direct call of reply
    stt_call       \* the last call of STTAgent.transcribe: its argument and its outcome

vars ==
    << pc, max_turns, cs, stt, turn, client, meta, loc, run_meta, audio_paths,
       conversation, logs, files, post, user_text, cs_resp, llm_call, stt_call >>

----------------------------------------------------------------------------
(* Bounds of the model.                                                    *)

\* run_conversation is started with max_turns in 0..MaxTurns.
MaxTurns == 3

\* A text given directly to the reply selector is made of at most this many
\* fragments.
MaxFrags == 3

\* A text given directly to the log recorder is made of at most this many
\* pieces.
MaxPieces == 3

\* An engine called directly gives at most this many segments.
MaxSegs == 2

----------------------------------------------------------------------------
(* Characters and Python's str operations.                                 *)

HebrewLetters ==
    {"alef", "bet", "gimel", "dalet", "he", "vav", "zayin", "het", "tet", "yod", "final_kaf", "kaf", "lamed", "final_mem",
     "mem", "final_nun", "nun", "samekh", "ayin", "final_pe", "pe", "final_tsadi", "tsadi", "qof", "resh", "shin", "tav"}

Digits == {"0", "1", "2", "3", "4", "5", "6", "7", "8", "9"}

AsciiUpper ==
    <<"A", "B", "C", "D", "E", "F", "G", "H", "I", "J", "K", "L", "M",
      "N", "O", "P", "Q", "R", "S", "T", "U", "V", "W", "X", "Y", "Z">>

AsciiLower ==
    <<"a", "b", "c", "d", "e", "f", "g", "h", "i", "j", "k", "l", "m",
      "n", "o", "p", "q", "r", "s", "t", "u", "v", "w", "x", "y", "z">>

Range(s) == {s[i] : i \in 1..Len(s)}

Whitespace == {" ", "\t", "\n"}

\* \d and \w of a Python 3 str pattern: \w is a letter, a digit or "_".
IsDigit(c) == c \in Digits

IsWordChar(c) ==
    c \in Digits \cup HebrewLetters \cup Range(AsciiUpper) \cup Range(AsciiLower) \cup {"_"}

lower_char(c) ==
    IF c \in Range(AsciiUpper)
    THEN AsciiLower[CHOOSE i \in 1..Len(AsciiUpper) : AsciiUpper[i] = c]
    ELSE c

\* str.lower()
lower(t) == [i \in 1..Len(t) |-> lower_char(t[i])]

RECURSIVE lstrip(_)
lstrip(t) ==
    IF t # <<>> /\ Head(t) \in Whitespace THEN lstrip(Tail(t)) ELSE t

RECURSIVE rstrip(_)
rstrip(t) ==
    IF t # <<>> /\ t[Len(t)] \in Whitespace THEN rstrip(SubSeq(t, 1, Len(t) - 1)) ELSE t

\* str.strip()
strip(t) == rstrip(lstrip(t))

\* pat occurs in t at position i.
OccursAt(t, pat, i) ==
    /\ i + Len(pat) - 1 <= Len(t)
    /\ \A j \in 1..Len(pat) : t[i + j - 1] = pat[j]

Contains(t, pat) == \E i \in 1..(Len(t) + 1) : OccursAt(t, pat, i)

\* re.search of an alternation of literal strings.
re_search(alternatives, t) ==
    \E k \in 1..Len(alternatives) : Contains(t, alternatives[k])

RECURSIVE Concat(_)
Concat(ss) == IF ss = <<>> THEN <<>> ELSE Head(ss) \o Concat(Tail(ss))

\* Every concatenation of at most n elements of the set frags.
Compose(frags, n) ==
    {Concat(fs) : fs \in UNION {[1..k -> frags] : k \in 0..n}}

----------------------------------------------------------------------------
(* Python values.                                                          *)

\* None where a name or an action is expected.
None == "None"

\* A JSON number where a string is expected, as a generated reply may be.
IntReply == <<"#int">>

IsStr(v) == v # IntReply

EmptyDict == <<>>

Has(d, k) == k \in DOMAIN d

\* d[k] = v
Put(d, k, v) == [x \in (DOMAIN d) \cup {k} |-> IF x = k THEN v ELSE d[x]]

\* d.get(k, default)
Get(d, k, default) == IF Has(d, k) THEN d[k] ELSE default

Min(a, b) == IF a < b THEN a ELSE b

----------------------------------------------------------------------------
(* agents/client_agent.py                                                  *)

Script1 ==
    <<"alef", "nun", "yod", " ", "resh", "vav", "tsadi", "he", " ", "lamed", "bet", "tet",
       "lamed", " ", "alef", "tav", " ", "he", "mem", "nun", "vav", "yod", " ", "lamed", "tet",
       "lamed", "vav", "vav", "yod", "zayin", "yod", "he", " ", "shin", "lamed", "yod", ".",
       " ", "alef", "nun", "yod", " ", "lamed", "alef", " ", "mem", "shin", "tav", "mem",
       "shin", " ", "bet", "zayin", "he", " ", "yod", "vav", "tav", "resh", ".">>

Script2 ==
    <<"he", "bet", "nun", "tav", "yod", " ", "emdash", " ", "mem", "he", " ", "ayin",
       "lamed", "yod", "yod", " ", "lamed", "ayin", "shin", "vav", "tav", " ", "kaf", "dalet",
       "yod", " ", "lamed", "vav", "vav", "dalet", "alef", " ", "shin", "bet", "vav", "tet",
       "lamed", " ", "vav", "tav", "shin", "lamed", "het", "vav", " ", "lamed", "yod", " ",
       "alef", "yod", "shin", "vav", "resh", "?">>

\* ClientAgent.scripts, as ClientAgent() sets it.
scripts == <<Script1, Script2>>

\* next_utterance with self.turn advanced by two: every other utterance is
\* skipped.
next_utterance_skipping(c) ==
    IF c < Len(scripts)
    THEN [txt |-> scripts[c + 1], turn |-> c + 2]
    ELSE [txt |-> <<>>, turn |-> c]

\* ClientAgent.next_utterance: the text returned and the new ClientAgent.turn.
next_utterance(c) ==
    IF c < Len(scripts)
    THEN [txt |-> scripts[c + 1], turn |-> c + 1]
    ELSE [txt |-> <<>>, turn |-> c]

----------------------------------------------------------------------------
(* agents/supervisor_agent.py                                              *)

\* SupervisorAgent.allow_new_turn, for a supervisor made with max_turns = cap.
allow_new_turn(cap, t) == t < cap

----------------------------------------------------------------------------
(* agents/cs_agent.py                                                      *)

ReplyVerifyId ==
    <<"alef", "nun", "alef", " ", "alef", "shin", "resh", " ", "alef", "tav", " ", "mem",
       "samekh", "pe", "resh", " ", "tav", "ayin", "vav", "dalet", "tav", " ", "he", "zayin",
       "he", "vav", "tav", " ", "shin", "lamed", "final_kaf", " ", "kaf", "dalet", "yod", " ",
       "shin", "nun", "vav", "kaf", "lamed", " ", "lamed", "he", "mem", "shin", "yod",
       "final_kaf", ".">>

ReplyPolicy ==
    <<"he", "mem", "dalet", "yod", "nun", "yod", "vav", "tav", " ", "shin", "lamed", "nun",
       "vav", " ", "he", "yod", "alef", " ", "bet", "yod", "tet", "vav", "lamed", " ", "mem",
       "yod", "yod", "dalet", "yod", " ", "lamed", "lamed", "alef", " ", "qof", "nun", "samekh",
       "vav", "tav", ".", " ", "he", "alef", "final_mem", " ", "tav", "resh", "tsadi", "he",
       " ", "lamed", "he", "mem", "shin", "yod", "final_kaf", "?">>

ReplyCancelled ==
    <<"he", "bet", "qof", "shin", "he", " ", "shin", "lamed", "final_kaf", " ", "bet", "vav",
       "tet", "lamed", "he", " ", "bet", "he", "tsadi", "lamed", "het", "he", ".", " ", "nun",
       "shin", "lamed", "het", " ", "lamed", "final_kaf", " ", "alef", "yod", "shin", "vav",
       "resh", " ", "lamed", "mem", "yod", "yod", "lamed", " ", "tav", "vav", "final_kaf", " ",
       "2", "4", " ", "shin", "ayin", "vav", "tav", ".">>

ReplyGoodbye ==
    <<"tav", "vav", "dalet", "he", " ", "shin", "pe", "nun", "yod", "tav", " ", "lamed",
       "shin", "yod", "resh", "vav", "tav", " ", "he", "lamed", "qof", "vav", "het", "vav",
       "tav", ".", " ", "yod", "vav", "final_mem", " ", "nun", "ayin", "yod", "final_mem", "!">>

ReplyFullName ==
    <<"lamed", "he", "shin", "lamed", "mem", "tav", " ", "he", "bet", "yod", "tet", "vav",
       "lamed", " ", "nun", "shin", "mem", "het", " ", "lamed", "alef", "shin", "resh", " ",
       "pe", "resh", "tet", "yod", " ", "het", "shin", "bet", "vav", "final_nun", " ", "nun",
       "vav", "samekh", "pe", "yod", "final_mem", ",", " ", "nun", "alef", " ", "lamed",
       "tsadi", "yod", "yod", "final_nun", " ", "shin", "final_mem", " ", "mem", "lamed",
       "alef", ".">>

ReplyWrittenConfirm ==
    <<"nun", "vav", "kaf", "lamed", " ", "lamed", "shin", "lamed", "vav", "het", " ", "alef",
       "yod", "shin", "vav", "resh", " ", "kaf", "tav", "vav", "bet", " ", "bet", "mem", "yod",
       "yod", "lamed", " ", "emdash", " ", "he", "alef", "final_mem", " ", "tav", "resh",
       "tsadi", "he", " ", "shin", "nun", "ayin", "shin", "he", " ", "zayin", "alef", "tav",
       "?">>

ReplyReceived ==
    <<"he", "bet", "qof", "shin", "he", " ", "he", "tav", "qof", "bet", "lamed", "he", " ",
       "vav", "tav", "tet", "vav", "pe", "lamed", " ", "bet", "he", "qof", "dalet", "final_mem",
       ".">>

ReplyMailAddress ==
    <<"nun", "shin", "lamed", "het", " ", "alef", "yod", "shin", "vav", "resh", " ", "lamed",
       "mem", "yod", "yod", "lamed", " ", "bet", "resh", "gimel", "ayin", " ", "shin", "he",
       "bet", "yod", "tet", "vav", "lamed", " ", "yod", "vav", "shin", "lamed", "final_mem",
       ".", " ", "mem", "he", " ", "kaf", "tav", "vav", "bet", "tav", " ", "he", "mem", "yod",
       "yod", "lamed", " ", "shin", "lamed", "final_kaf", "?">>

ReplyDefault ==
    <<"he", "alef", "final_mem", " ", "bet", "resh", "tsadi", "vav", "nun", "final_kaf", " ",
       "shin", "alef", "bet", "tsadi", "ayin", " ", "alef", "tav", " ", "he", "bet", "yod",
       "tet", "vav", "lamed", " ", "kaf", "ayin", "tav", "?">>

ReplyNotUnderstood ==
    <<"mem", "tsadi", "tet", "ayin", "resh", ",", " ", "lamed", "alef", " ", "he", "tsadi",
       "lamed", "het", "tav", "yod", " ", "lamed", "he", "bet", "yod", "final_nun", ".", " ",
       "tav", "vav", "kaf", "lamed", " ", "lamed", "het", "zayin", "vav", "resh", " ", "shin",
       "vav", "bet", "?">>

scripted_flow ==
    << [reply |-> ReplyVerifyId, action |-> "verify"],
       [reply |-> ReplyPolicy, action |-> "explain"],
       [reply |-> ReplyCancelled, action |-> "confirm"],
       [reply |-> ReplyGoodbye, action |-> "close"] >>

extra_replies ==
    << [reply |-> ReplyFullName, action |-> "verify"],
       [reply |-> ReplyWrittenConfirm, action |-> "confirm"],
       [reply |-> ReplyReceived, action |-> "confirm"] >>

CancelPatterns ==
    << <<"bet", "tet", "lamed">>,
       <<"lamed", "bet", "tet", "lamed">>,
       <<"lamed", "bet", "qof", "shin", " ", "bet", "yod", "tet", "vav", "lamed">>,
       <<"lamed", "bet", "tet", "lamed">> >>

ConfirmPatterns ==
    << <<"alef", "yod", "shin", "vav", "resh">>,
       <<"alef", "yod", "shin", "vav", "resh", "yod", "final_mem">>,
       <<"alef", "yod", "final_kaf", " ", "alef", "dalet", "ayin">>,
       <<"alef", "yod", "shin", "vav", "resh", " ", "bet", "mem", "yod", "yod", "lamed">> >>

HowToPatterns ==
    << <<"mem", "he", " ", "ayin", "lamed", "yod", "yod", " ", "lamed", "ayin", "shin", "vav",
       "tav">>,
       <<"kaf", "yod", "tsadi", "dalet">>,
       <<"alef", "yod", "final_kaf">> >>

DonePatterns ==
    << <<"samekh", "yod", "yod", "mem", "tav", "final_mem">>,
       <<"bet", "vav", "tsadi", "ayin">>,
       <<"bet", "vav", "tsadi", "ayin", "he">>,
       <<"samekh", "gimel", "vav", "resh">> >>

\* _scripted_reply_for with the completion rule tried before the how-to rule.
scripted_reply_done_first(text, choice) ==
    LET t == lower(strip(text)) IN
    IF re_search(CancelPatterns, t) THEN scripted_flow[1]
    ELSE IF re_search(ConfirmPatterns, t)
         THEN [reply |-> ReplyMailAddress, action |-> "verify"]
    ELSE IF re_search(DonePatterns, t) THEN extra_replies[choice]
    ELSE IF re_search(HowToPatterns, t) THEN scripted_flow[2]
    ELSE [reply |-> ReplyDefault, action |-> "explain"]

\* _scripted_reply_for with the how-to rule tried before the cancellation rule.
scripted_reply_how_first(text, choice) ==
    LET t == lower(strip(text)) IN
    IF re_search(HowToPatterns, t) THEN scripted_flow[2]
    ELSE IF re_search(CancelPatterns, t) THEN scripted_flow[1]
    ELSE IF re_search(ConfirmPatterns, t)
         THEN [reply |-> ReplyMailAddress, action |-> "verify"]
    ELSE IF re_search(DonePatterns, t) THEN extra_replies[choice]
    ELSE [reply |-> ReplyDefault, action |-> "explain"]

\* The rules with the completion rule answering with the goodbye of
\* scripted_flow, whose action is close.
scripted_reply_closing_when_done(text, choice) ==
    LET t == lower(strip(text)) IN
    IF re_search(CancelPatterns, t) THEN scripted_flow[1]
    ELSE IF re_search(ConfirmPatterns, t)
         THEN [reply |-> ReplyMailAddress, action |-> "verify"]
    ELSE IF re_search(HowToPatterns, t) THEN scripted_flow[2]
    ELSE IF re_search(DonePatterns, t) THEN scripted_flow[4]
    ELSE [reply |-> ReplyDefault, action |-> "explain"]

\* CustomerServiceAgent._scripted_reply_for; choice is what random.choice
\* draws, an index of extra_replies.
scripted_reply_for(text, choice) ==
    LET t == lower(strip(text)) IN
    IF re_search(CancelPatterns, t) THEN scripted_flow[1]
    ELSE IF re_search(ConfirmPatterns, t)
         THEN [reply |-> ReplyMailAddress, action |-> "verify"]
    ELSE IF re_search(HowToPatterns, t) THEN scripted_flow[2]
    ELSE IF re_search(DonePatterns, t) THEN extra_replies[choice]
    ELSE [reply |-> ReplyDefault, action |-> "explain"]

\* What litellm.completion can do: raise, or answer with a content that is
\* no JSON, a JSON value that is no object, or a JSON object.
GeneratedReplies ==
    { [reply |-> ReplyGoodbye, action |-> "close"],
      [reply |-> ReplyReceived, action |-> "escalate"],
      [reply |-> ReplyReceived],
      [reply |-> IntReply, action |-> "verify"],
      [action |-> "confirm"] }

LLMOutcomes ==
    { [kind |-> "raises", data |-> EmptyDict],
      [kind |-> "not_json", data |-> EmptyDict],
      [kind |-> "not_object", data |-> EmptyDict] }
    \cup { [kind |-> "object", data |-> d] : d \in GeneratedReplies }

\* CustomerServiceAgent._call_openai: raises, or returns the parsed object.
call_openai(llm) ==
    IF llm.kind = "raises" THEN [raised |-> TRUE, data |-> EmptyDict]
    ELSE IF llm.kind = "not_json" THEN [raised |-> TRUE, data |-> EmptyDict]
    ELSE IF llm.kind = "not_object" \/ ~Has(llm.data, "reply")
         THEN [raised |-> TRUE, data |-> EmptyDict]
    ELSE [raised |-> FALSE, data |-> llm.data]

\* reply with its second try block gone wrong: a failed generative call is
\* answered with the generic fallback, not with the rule table.
reply_without_fallback(agent, llm, text, choice) ==
    IF agent.use_openai /\ agent.litellm
    THEN IF call_openai(llm).raised
         THEN [reply |-> ReplyNotUnderstood, action |-> "retry"]
         ELSE call_openai(llm).data
    ELSE IF agent.use_openai
    THEN [reply |-> ReplyNotUnderstood, action |-> "retry"]
    ELSE scripted_reply_for(text, choice)

\* CustomerServiceAgent.reply
reply(agent, llm, text, choice) ==
    IF agent.use_openai /\ agent.litellm /\ ~call_openai(llm).raised
    THEN call_openai(llm).data
    ELSE scripted_reply_for(text, choice)

CSAgents ==
    { [use_openai |-> FALSE, litellm |-> FALSE],
      [use_openai |-> TRUE, litellm |-> FALSE],
      [use_openai |-> TRUE, litellm |-> TRUE] }

\* The agents and the generated answers of the modelled runs.
RunCSAgents == {a \in CSAgents : a.use_openai = a.litellm}

RunLLMOutcomes ==
    {o \in LLMOutcomes :
        \/ o.kind = "raises"
        \/ o.kind = "object" /\ Has(o.data, "reply") /\ Get(o.data, "action", None) \in {"close", "verify"}}

----------------------------------------------------------------------------
(* agents/logger_agent.py                                                  *)

\* \b at the gap before position i of t: a word character on exactly one side.
WordBoundary(t, i) ==
    LET before == i > 1 /\ i - 1 <= Len(t) /\ IsWordChar(t[i - 1])
        after == i >= 1 /\ i <= Len(t) /\ IsWordChar(t[i])
    IN  before # after

\* PII_PATTERN, \b(\d{6,})\b, matches t[i..k].
PIIMatch(t, i, k) ==
    /\ k - i + 1 >= 6
    /\ \A j \in i..k : IsDigit(t[j])
    /\ WordBoundary(t, i)
    /\ WordBoundary(t, k + 1)

\* Where the match that starts at i ends (the longest one: \d{6,} is greedy),
\* or 0 when none starts at i.
PIIMatchEnd(t, i) ==
    IF ~(IsDigit(t[i]) /\ WordBoundary(t, i)) THEN 0
    ELSE LET ends == {k \in i..Len(t) : PIIMatch(t, i, k)}
         IN  IF ends = {} THEN 0 ELSE CHOOSE k \in ends : \A e \in ends : e <= k

\* PII_PATTERN.sub over t from position i on: each match, found left to right,
\* becomes "***" and the last four characters of the match.
RECURSIVE pii_sub(_, _)
pii_sub(t, i) ==
    IF i > Len(t) THEN <<>>
    ELSE LET k == PIIMatchEnd(t, i) IN
         IF k = 0
         THEN <<t[i]>> \o pii_sub(t, i + 1)
         ELSE <<"*", "*", "*">> \o SubSeq(t, k - 3, k) \o pii_sub(t, k + 1)

\* LoggerAgent.redact, of a str.
redact(text) == IF text = <<>> THEN text ELSE pii_sub(text, 1)

RedactedKeys == {"text", "transcript"}

\* LoggerAgent.log raises when re.sub is given a value that is no str.
log_raises(entry) == \E k \in RedactedKeys : Has(entry, k) /\ ~IsStr(entry[k])

\* LoggerAgent.log: the new LoggerAgent.logs.
log(lg, entry) ==
    Append(lg, [k \in DOMAIN entry |->
                  IF k \in RedactedKeys THEN redact(entry[k]) ELSE entry[k]])

----------------------------------------------------------------------------
(* agents/transcript_agent.py                                              *)

\* TranscriptAgent.add_turn: the new TranscriptAgent.conversation.
add_turn(conv, speaker, text) == Append(conv, [speaker |-> speaker, text |-> text])

----------------------------------------------------------------------------
(* The output directory.                                                   *)

OUTPUT_DIR == "outputs"

AUDIO_DIR == "outputs/audio"

TRANS_DIR == "outputs/transcripts"

LOG_DIR == "outputs/logs"

METADATA_DIR == "outputs/metadata"

Path(dir, name) == [dir |-> dir, name |-> name]

\* None where a path is expected.
NonePath == Path("", "None")

\* Path.exists
Exists(fs, p) == p \in DOMAIN fs

\* AudioSegment.from_file succeeds on p.
Decodes(fs, p) == fs[p].kind = "wav"

\* len(AudioSegment), in ms: an audio is a sequence of pieces.
RECURSIVE AudioLen(_)
AudioLen(a) == IF a = <<>> THEN 0 ELSE Head(a).ms + AudioLen(Tail(a))

\* AudioSegment.silent(duration)
silent(duration) == << [src |-> "silence", ms |-> duration] >>

\* What a synthesized file holds: one piece of speech.
Speech(name, ms) == << [src |-> name, ms |-> ms] >>

WavFile(a) == [kind |-> "wav", audio |-> a]

CorruptFile == [kind |-> "corrupt"]

JsonFile(obj) == [kind |-> "json", obj |-> obj]

\* open(path, "w") and a write, or AudioSegment.export: the new directory.
Write(fs, p, content) == [x \in (DOMAIN fs) \cup {p} |-> IF x = p THEN content ELSE fs[x]]

----------------------------------------------------------------------------
(* agents/stt_agent.py                                                     *)

MockTranscript ==
    <<"[", "M", "O", "C", "K", " ", "T", "R", "A", "N", "S", "C", "R", "I", "P", "T", " ",
       "-", " ", "S", "T", "T", " ", "n", "o", "t", " ", "a", "v", "a", "i", "l", "a", "b", "l",
       "e", "]">>

TranscribeError ==
    <<"[", "T", "R", "A", "N", "S", "C", "R", "I", "B", "E", " ", "E", "R", "R", "O", "R",
       "]">>

EmptyTranscript ==
    <<"[", "E", "M", "P", "T", "Y", " ", "T", "R", "A", "N", "S", "C", "R", "I", "P", "T",
       "]">>

\* How STTAgent.__init__ can end: in mock mode, or with a backend and a model.
STTAgents ==
    { [impl_name |-> "mock", model |-> FALSE],
      [impl_name |-> "whisper", model |-> FALSE],
      [impl_name |-> "whisper", model |-> TRUE] }

\* The recognizers of the modelled runs: a backend without a model behaves as
\* the mock.
RunSTTAgents == {a \in STTAgents : a.impl_name = "mock" \/ a.model}

\* A start or end time of an engine's segment: a number, a value float()
\* rejects, or (NoTime) an absent key.
Time(ms) == [t |-> "num", ms |-> ms]

BadTime == [t |-> "bad", ms |-> 0]

NoTime == [t |-> "none", ms |-> 0]

\* STTAgent._wav_duration
wav_duration(fs, path) ==
    IF Exists(fs, path) /\ Decodes(fs, path) THEN AudioLen(fs[path].audio) ELSE 0

\* _single_segment_from_wav without its measurement: the segment ends at 0.
single_segment_unmeasured(fs, path, text) == [start |-> 0, end |-> 0, text |-> text]

\* STTAgent._single_segment_from_wav
single_segment_from_wav(fs, path, text) ==
    [start |-> 0, end |-> wav_duration(fs, path), text |-> text]

\* " ".join(ts)
RECURSIVE join(_)
join(ts) ==
    IF ts = <<>> THEN <<>>
    ELSE IF Len(ts) = 1 THEN Head(ts)
    ELSE Head(ts) \o <<" ">> \o join(Tail(ts))

\* " ".join(t for t in safe_texts if t).strip()
full_text(segs) ==
    strip(join(SelectSeq([i \in 1..Len(segs) |-> segs[i].text], LAMBDA t : t # <<>>)))

\* The body of transcribe's loop for one raw segment s: the segment appended,
\* or nothing when a conversion raises (the segment is skipped).
convert_segment(fs, path, s) ==
    IF Has(s, "#str")
    THEN << [start |-> 0, end |-> wav_duration(fs, path), text |-> strip(s["#str"])] >>
    ELSE LET st == IF Has(s, "start") THEN s["start"]
                   ELSE IF Has(s, "start_ms") THEN s["start_ms"] ELSE NoTime
             en == IF Has(s, "end") THEN s["end"]
                   ELSE IF Has(s, "end_ms") THEN s["end_ms"] ELSE NoTime
         IN  IF st.t = "bad" \/ en.t = "bad" THEN <<>>
             ELSE << [start |-> IF st.t = "none" THEN 0 ELSE st.ms,
                      end |-> IF en.t = "none" THEN wav_duration(fs, path) ELSE en.ms,
                      text |-> strip(Get(s, "text", <<>>))] >>

RECURSIVE convert_segments(_, _, _)
convert_segments(fs, path, raw) ==
    IF raw = <<>> THEN <<>>
    ELSE convert_segment(fs, path, Head(raw)) \o convert_segments(fs, path, Tail(raw))

STTResult(text, segs) ==
    [raised |-> FALSE, out |-> [text |-> text, segments |-> segs, language |-> "und"]]

STTRaised ==
    [raised |-> TRUE, out |-> [text |-> <<>>, segments |-> <<>>, language |-> "und"]]

\* STTAgent.transcribe.  res is what the engine did: res.kind is "raises", or
\* the shape of the value it returned: "segments" (a dict with a list under
\* "segments"), "segments_none" (a dict with None under "segments"), "list",
\* "text" (a dict with "text" and no "segments") or "other".
transcribe(agent, fs, audio_path, res) ==
    IF agent.impl_name = "mock" \/ ~agent.model
    THEN LET segs == << single_segment_from_wav(fs, audio_path, MockTranscript) >>
         IN  STTResult(full_text(segs), segs)
    ELSE IF res.kind = "raises"
    THEN LET segs == << single_segment_from_wav(fs, audio_path, TranscribeError) >>
         IN  STTResult(join(<<segs[1].text>>), segs)
    ELSE IF res.kind = "segments_none"
    THEN STTRaised
    ELSE IF res.kind = "text"
    THEN LET txt == strip(res.text)
         IN  STTResult(txt, << single_segment_from_wav(fs, audio_path, txt) >>)
    ELSE LET raw == IF res.kind \in {"segments", "list"} THEN res.segs ELSE <<>>
             converted == convert_segments(fs, audio_path, raw)
             segments == IF converted = <<>>
                         THEN << single_segment_from_wav(fs, audio_path, EmptyTranscript) >>
                         ELSE converted
         IN  STTResult(full_text(segments), segments)

EngineResult(kind, segs, text) == [kind |-> kind, segs |-> segs, text |-> text]

\* What the engine may do with the audio of an utterance: raise, recognize
\* the utterance in one timed segment, recognize it and more in two, answer
\* with a blank text and no segments, or answer with None for its segments.
EngineResults(utterance) ==
    { EngineResult("raises", <<>>, <<>>),
      EngineResult("segments",
                   << [start |-> Time(0), end |-> Time(900), text |-> utterance] >>, <<>>),
      EngineResult("segments",
                   << [start |-> Time(0), end |-> Time(900), text |-> utterance],
                      [start_ms |-> Time(900), end_ms |-> Time(1800),
                       text |-> <<" ", "O", "\n", "K", " ">>] >>, <<>>),
      EngineResult("text", <<>>, <<" ">>),
      EngineResult("segments_none", <<>>, <<>>) }

----------------------------------------------------------------------------
(* crew_main.py: helpers                                                   *)

\* The stamp datetime.now().strftime(...) puts in a file name.
Stamp == "YYYYmmdd_HHMMSS"

client_wav(turn_index) == Path(AUDIO_DIR, "client_" \o ToString(turn_index + 1) \o ".wav")

agent_wav(turn_index) == Path(AUDIO_DIR, "agent_" \o ToString(turn_index + 1) \o ".wav")

\* The lengths, in ms, a synthesized utterance may have.
Durations == {1000}

\* TTSAgent.synthesize, when it returns: the file it exports under out_dir.
synthesize(fs, out_path, ms) == Write(fs, out_path, WavFile(Speech(out_path.name, ms)))

\* ensure_wav_mono_16k: it returns ("ok"), or raises before it opens the file
\* for writing ("unread"), or raises after ("truncated").
NormalizeOutcomes == {"ok", "unread", "truncated"}

ensure_wav_mono_16k(fs, path, outcome) ==
    IF outcome = "truncated" THEN Write(fs, path, CorruptFile) ELSE fs

pause_ms == 150

\* The loop of stitch_audio over audio_paths: the decoded segments.
RECURSIVE read_segments(_, _)
read_segments(fs, paths) ==
    IF paths = <<>> THEN <<>>
    ELSE (IF Exists(fs, Head(paths)) /\ Decodes(fs, Head(paths))
          THEN << fs[Head(paths)].audio >>
          ELSE <<>>) \o read_segments(fs, Tail(paths))

\* The concatenation with the silence left out: out += seg.
RECURSIVE concat_without_pause(_, _)
concat_without_pause(segments, pause) ==
    IF Len(segments) = 1 THEN segments[1]
    ELSE concat_without_pause(SubSeq(segments, 1, Len(segments) - 1), pause)
         \o segments[Len(segments)]

\* out = segments[0]; for seg in segments[1:]: out += silent(pause) + seg
RECURSIVE concat_with_pause(_, _)
concat_with_pause(segments, pause) ==
    IF Len(segments) = 1 THEN segments[1]
    ELSE concat_with_pause(SubSeq(segments, 1, Len(segments) - 1), pause)
         \o (silent(pause) \o segments[Len(segments)])

\* stitch_audio without its early return: with no segment it exports an empty
\* audio and returns out_path.
stitch_audio_always(fs, paths, out_path, pause) ==
    LET segments == read_segments(fs, paths) IN
    [ret |-> out_path,
     files |-> Write(fs, out_path,
                     WavFile(IF segments = <<>> THEN <<>>
                             ELSE concat_with_pause(segments, pause)))]

\* stitch_audio: what it returns, and the directory after it.
stitch_audio(fs, paths, out_path, pause) ==
    LET segments == read_segments(fs, paths) IN
    IF segments = <<>>
    THEN [ret |-> NonePath, files |-> fs]
    ELSE [ret |-> out_path,
          files |-> Write(fs, out_path, WavFile(concat_with_pause(segments, pause)))]

\* str(n), one character per digit.
RECURSIVE Decimal(_)
Decimal(n) == IF n < 10 THEN << ToString(n) >> ELSE Decimal(n \div 10) \o << ToString(n % 10) >>

\* f"{n:0w}": padded with zeros to w characters.
RECURSIVE Pad(_, _)
Pad(d, w) == IF Len(d) >= w THEN d ELSE Pad(<<"0">> \o d, w)

\* fmt_ts of a time given in ms: HH:MM:SS,mmm.  The code computes the
\* milliseconds in floating point, int((t - int(t)) * 1000); the times of
\* this model (multiples of 100 ms below 2 s) come out exact.
fmt_ts(ms) ==
    LET total_seconds == ms \div 1000
        hours == total_seconds \div 3600
        minutes == (total_seconds % 3600) \div 60
        secs == total_seconds % 60
        millis == ms % 1000
    IN  Pad(Decimal(hours), 2) \o <<":">> \o Pad(Decimal(minutes), 2) \o <<":">>
        \o Pad(Decimal(secs), 2) \o <<",">> \o Pad(Decimal(millis), 3)

Arrow == <<" ", "-", "-", ">", " ">>

\* text.replace("\n", " ")
replace_newlines(t) == [i \in 1..Len(t) |-> IF t[i] = "\n" THEN " " ELSE t[i]]

\* The four lines segments_to_srt appends for its i-th segment.
srt_block(i, seg) ==
    << Decimal(i),
       fmt_ts(seg.start) \o Arrow \o fmt_ts(seg.end),
       strip(replace_newlines(seg.text)),
       <<>> >>

RECURSIVE srt_lines(_, _)
srt_lines(segments, i) ==
    IF i > Len(segments) THEN <<>>
    ELSE srt_block(i, segments[i]) \o srt_lines(segments, i + 1)

\* "\n".join(lines)
RECURSIVE join_lines(_)
join_lines(lines) ==
    IF lines = <<>> THEN <<>>
    ELSE IF Len(lines) = 1 THEN Head(lines)
    ELSE Head(lines) \o <<"\n">> \o join_lines(Tail(lines))

SrtFile(text) == [kind |-> "srt", text |-> text]

\* segments_to_srt: the file it writes.
segments_to_srt(fs, segments, out_path) ==
    Write(fs, out_path, SrtFile(join_lines(srt_lines(segments, 1))))

\* safe_write_json
safe_write_json(fs, obj, path) == Write(fs, path, JsonFile(obj))

----------------------------------------------------------------------------
(* crew_main.py: run_turn, stage by stage.  Each stage gives the new meta,  *)
(* locals, log entries and directory.                                      *)

Stage(m, l, lg, fs) == [meta |-> m, loc |-> l, logs |-> lg, files |-> fs]

\* The first lines of run_turn.
turn_start(turn_index, client_text) ==
    [meta |-> [turn |-> turn_index, client_text |-> client_text],
     loc |-> [client_text |-> client_text]]

\* 1) Client TTS, when synthesize returns a file of ms milliseconds.
client_tts(m, l, lg, fs, ms) ==
    LET wav == client_wav(m["turn"]) IN
    Stage(Put(Put(m, "client_audio", wav), "tts_client_duration_ms", ms),
          l,
          log(lg, [role |-> "client_tts", turn |-> m["turn"],
                   text |-> l["client_text"], audio |-> wav]),
          synthesize(fs, wav, ms))

\* Normalize audio for STT: a failure is caught.
normalize(m, l, lg, fs, outcome) ==
    Stage(m, l, lg, ensure_wav_mono_16k(fs, client_wav(m["turn"]), outcome))

\* 2) STT; r is what stt_agent.transcribe did.
stt_stage(m, l, lg, fs, r) ==
    IF r.raised
    THEN Stage(Put(m, "stt_error", "error"), Put(l, "stt_text", <<>>), lg, fs)
    ELSE LET stt_text == strip(Get(r.out, "text", <<>>)) IN
         Stage(Put(Put(m, "stt_text", stt_text), "stt_segments", Get(r.out, "segments", <<>>)),
               Put(l, "stt_text", stt_text),
               log(lg, [role |-> "stt", turn |-> m["turn"], transcript |-> stt_text]),
               fs)

\* stt_text, without the fallback to client_text.
heard_recognized_only(l) == l["stt_text"]

\* client_text, whatever was recognized.
heard_client_text(l) == l["client_text"]

\* stt_text or client_text
heard(l) == IF l["stt_text"] # <<>> THEN l["stt_text"] ELSE l["client_text"]

ReplyMissing ==
    <<"mem", "tsadi", "tet", "ayin", "resh", ",", " ", "lamed", "alef", " ", "he", "bet",
       "nun", "tav", "yod", " ", "emdash", " ", "alef", "pe", "shin", "resh", " ", "lamed",
       "het", "zayin", "vav", "resh", " ", "bet", "bet", "qof", "shin", "he", "?">>

ReplyTechnical ==
    <<"mem", "tsadi", "tet", "ayin", "resh", ",", " ", "yod", "shin", " ", "bet", "ayin",
       "yod", "he", " ", "tet", "kaf", "nun", "yod", "tav", ".", " ", "nun", "alef", " ", "nun",
       "samekh", "he", " ", "mem", "alef", "vav", "het", "resh", " ", "yod", "vav", "tav",
       "resh", ".">>

\* 3) Customer Service decision; resp is what cs_agent.reply returned.
cs_stage(m, l, lg, fs, resp) ==
    LET reply_text == Get(resp, "reply", ReplyMissing)
        m1 == Put(Put(m, "cs_action", Get(resp, "action", None)), "reply_text", reply_text)
        entry == [role |-> "cs_decision", turn |-> m["turn"],
                  action |-> Get(resp, "action", None), text |-> reply_text]
    IN  IF log_raises(entry)
        THEN Stage(Put(m1, "cs_error", "error"), Put(l, "reply_text", ReplyTechnical), lg, fs)
        ELSE Stage(m1, Put(l, "reply_text", reply_text), log(lg, entry), fs)

\* 4) Agent TTS, when synthesize returns a file of ms milliseconds.
agent_tts(m, l, lg, fs, ms) ==
    LET wav == agent_wav(m["turn"]) IN
    Stage(Put(Put(m, "agent_audio", wav), "tts_agent_duration_ms", ms),
          l,
          log(lg, [role |-> "agent_tts", turn |-> m["turn"],
                   text |-> l["reply_text"], audio |-> wav]),
          synthesize(fs, wav, ms))

\* 4) Agent TTS, when synthesize raises.
agent_tts_failed(m, l, lg, fs) == Stage(Put(m, "tts_agent_error", "error"), l, lg, fs)

\* 5) Transcript storage: the new conversation.
transcript_storage(conv, l) ==
    add_turn(add_turn(conv, "client", heard(l)), "agent", l["reply_text"])

\* run_conversation: collect audio paths for stitching.
collect_audio(paths, m) ==
    LET with_client == IF Has(m, "client_audio")
                       THEN Append(paths, m["client_audio"]) ELSE paths
    IN  IF Has(m, "agent_audio") THEN Append(with_client, m["agent_audio"]) ELSE with_client

\* run_conversation: check for end action from CS.
closes(m) == Get(m, "cs_action", None) \in {"close", "goodbye"}

\* A segment run_conversation keeps for the subtitles: it has start, end and
\* text.
timed(seg) == Has(seg, "start") /\ Has(seg, "end") /\ Has(seg, "text")

keep_timed(segs) ==
    LET kept == SelectSeq(segs, timed) IN
    [i \in 1..Len(kept) |->
        [start |-> kept[i]["start"], end |-> kept[i]["end"], text |-> kept[i]["text"]]]

\* The loop over the turns with the break its comments announce: the
\* segments of the first turn that has any.
RECURSIVE srt_candidate_segments_first_turn(_)
srt_candidate_segments_first_turn(turns) ==
    IF turns = <<>> THEN <<>>
    ELSE IF Get(Head(turns), "stt_segments", <<>>) # <<>>
    THEN keep_timed(Get(Head(turns), "stt_segments", <<>>))
    ELSE srt_candidate_segments_first_turn(Tail(turns))

\* run_conversation: the segments it gives to segments_to_srt.
RECURSIVE srt_candidate_segments(_)
srt_candidate_segments(turns) ==
    IF turns = <<>> THEN <<>>
    ELSE keep_timed(Get(Head(turns), "stt_segments", <<>>))
         \o srt_candidate_segments(Tail(turns))

transcript_json == Path(TRANS_DIR, "transcript_" \o Stamp \o ".json")

run_meta_path == Path(METADATA_DIR, "run_meta_" \o Stamp \o ".json")

logs_path == Path(LOG_DIR, "logs.json")

stitched_path == Path(OUTPUT_DIR, "full_conversation_" \o Stamp \o ".wav")

srt_path == Path(TRANS_DIR, "transcript_" \o Stamp \o ".srt")

index_path == Path(METADATA_DIR, "artifacts_index.json")

\* The index with the subtitle path entered whether or not the file was
\* exported.
artifacts_with_srt_always(p) ==
    [transcript_json |-> p["transcript_json"],
     logs |-> p["logs_path"],
     run_meta |-> p["run_meta_path"],
     stitched_audio |-> IF p["stitched"] # NonePath THEN p["stitched"] ELSE NonePath,
     srt |-> srt_path]

\* run_conversation: the final artifacts index.
artifacts(p) ==
    [transcript_json |-> p["transcript_json"],
     logs |-> p["logs_path"],
     run_meta |-> p["run_meta_path"],
     stitched_audio |-> IF p["stitched"] # NonePath THEN p["stitched"] ELSE NonePath,
     srt |-> IF p["srt_candidate_segments"] # <<>> THEN srt_path ELSE NonePath]

----------------------------------------------------------------------------
(* crew_main.py: run_conversation                                          *)

Init ==
    /\ pc = "loop"
    /\ max_turns \in 0..MaxTurns
    /\ cs \in RunCSAgents
    /\ stt \in RunSTTAgents
    /\ turn = 0
    /\ client = 0
    /\ meta = EmptyDict
    /\ loc = EmptyDict
    /\ run_meta = <<>>
    /\ audio_paths = <<>>
    /\ conversation = <<>>
    /\ logs = <<>>
    /\ files = EmptyDict
    /\ post = EmptyDict
    /\ user_text = <<>>
    /\ cs_resp = EmptyDict
    /\ llm_call = EmptyDict
    /\ stt_call = EmptyDict

\* The head of the loop lets a turn start: the range is not exhausted, the
\* supervisor allows the turn, and the client has an utterance.
TurnStarts ==
    /\ turn < max_turns
    /\ allow_new_turn(max_turns, turn)
    /\ next_utterance(client).txt # <<>>

\* The head of the loop, starting run_turn.
BeginTurn ==
    /\ pc = "loop"
    /\ TurnStarts
    /\ client' = next_utterance(client).turn
    /\ meta' = turn_start(turn, next_utterance(client).txt).meta
    /\ loc' = turn_start(turn, next_utterance(client).txt).loc
    /\ pc' = "client_tts"
    /\ UNCHANGED << max_turns, cs, stt, turn, run_meta, audio_paths, conversation, logs,
                    files, post, user_text, cs_resp, llm_call, stt_call >>

\* The head of the loop, leaving the loop.  The client is asked for an
\* utterance only when the range and the supervisor let the turn start.
EndLoop ==
    /\ pc = "loop"
    /\ ~TurnStarts
    /\ client' = IF turn < max_turns /\ allow_new_turn(max_turns, turn)
                 THEN next_utterance(client).turn ELSE client
    /\ pc' = "save_transcript"
    /\ UNCHANGED << max_turns, cs, stt, turn, meta, loc, run_meta, audio_paths,
                    conversation, logs, files, post, user_text, cs_resp, llm_call, stt_call >>

SetStage(s) ==
    /\ meta' = s.meta
    /\ loc' = s.loc
    /\ logs' = s.logs
    /\ files' = s.files

TurnFrame == << max_turns, cs, stt, turn, client, run_meta, audio_paths, conversation,
                post, user_text, cs_resp, llm_call, stt_call >>

\* 1) Client TTS.  synthesize is called outside any try: when it raises, the
\* exception leaves run_turn and run_conversation.
ClientTTS ==
    /\ pc = "client_tts"
    /\ \/ \E ms \in Durations :
             /\ SetStage(client_tts(meta, loc, logs, files, ms))
             /\ pc' = "normalize"
       \/ /\ pc' = "turn_raised"
          /\ UNCHANGED << meta, loc, logs, files >>
    /\ UNCHANGED TurnFrame

Normalize ==
    /\ pc = "normalize"
    /\ \E outcome \in NormalizeOutcomes :
          SetStage(normalize(meta, loc, logs, files, outcome))
    /\ pc' = "stt"
    /\ UNCHANGED TurnFrame

STT ==
    /\ pc = "stt"
    /\ \E res \in EngineResults(loc["client_text"]) :
          /\ stt_call' = [audio_path |-> client_wav(meta["turn"]),
                          ret |-> transcribe(stt, files, client_wav(meta["turn"]), res)]
          /\ SetStage(stt_stage(meta, loc, logs, files, stt_call'["ret"]))
    /\ pc' = "cs"
    /\ UNCHANGED << max_turns, cs, stt, turn, client, run_meta, audio_paths, conversation,
                    post, user_text, cs_resp, llm_call >>

CS ==
    /\ pc = "cs"
    /\ user_text' = heard(loc)
    /\ \E llm \in RunLLMOutcomes, choice \in 1..Len(extra_replies) :
          /\ cs_resp' = reply(cs, llm, heard(loc), choice)
          /\ SetStage(cs_stage(meta, loc, logs, files, cs_resp'))
    /\ pc' = "agent_tts"
    /\ UNCHANGED << max_turns, cs, stt, turn, client, run_meta, audio_paths, conversation,
                    post, llm_call, stt_call >>

AgentTTS ==
    /\ pc = "agent_tts"
    /\ \/ \E ms \in Durations : SetStage(agent_tts(meta, loc, logs, files, ms))
       \/ SetStage(agent_tts_failed(meta, loc, logs, files))
    /\ pc' = "transcript"
    /\ UNCHANGED TurnFrame

\* 5) Transcript storage and the return of run_turn; then, in
\* run_conversation, the record is appended, its audio paths are collected
\* and the end action is checked.
FinishTurn ==
    /\ pc = "transcript"
    /\ conversation' = transcript_storage(conversation, loc)
    /\ run_meta' = Append(run_meta, meta)
    /\ audio_paths' = collect_audio(audio_paths, meta)
    /\ IF closes(meta)
       THEN pc' = "save_transcript" /\ turn' = turn
       ELSE pc' = "loop" /\ turn' = turn + 1
    /\ UNCHANGED << max_turns, cs, stt, client, meta, loc, logs, files, post,
                    user_text, cs_resp, llm_call, stt_call >>

PostFrame == << max_turns, cs, stt, turn, client, meta, loc, run_meta, audio_paths,
                conversation, logs, user_text, cs_resp, llm_call, stt_call >>

\* A write to the output directory fails: the exception leaves
\* run_conversation.
WriteFails ==
    /\ pc' = "write_raised"
    /\ UNCHANGED << files, post >>

SaveTranscript ==
    /\ pc = "save_transcript"
    /\ \/ /\ files' = safe_write_json(files, conversation, transcript_json)
          /\ post' = Put(post, "transcript_json", transcript_json)
          /\ pc' = "save_run_meta"
       \/ WriteFails
    /\ UNCHANGED PostFrame

SaveRunMeta ==
    /\ pc = "save_run_meta"
    /\ \/ /\ files' = safe_write_json(files, [max_turns |-> max_turns, turns |-> run_meta],
                                      run_meta_path)
          /\ post' = Put(post, "run_meta_path", run_meta_path)
          /\ pc' = "save_logs"
       \/ WriteFails
    /\ UNCHANGED PostFrame

\* logger_agent.save() with its failure caught: the run goes on to the
\* stitching.
SaveLogsCaught ==
    /\ pc = "save_logs"
    /\ \/ files' = Write(files, logs_path, JsonFile(logs))
       \/ files' = files
    /\ post' = Put(post, "logs_path", logs_path)
    /\ pc' = "stitch"
    /\ UNCHANGED PostFrame

\* logger_agent.save()
SaveLogs ==
    /\ pc = "save_logs"
    /\ \/ /\ files' = Write(files, logs_path, JsonFile(logs))
          /\ post' = Put(post, "logs_path", logs_path)
          /\ pc' = "stitch"
       \/ WriteFails
    /\ UNCHANGED PostFrame

Stitch ==
    /\ pc = "stitch"
    /\ LET s == stitch_audio(files, audio_paths, stitched_path, pause_ms) IN
       \/ /\ files' = s.files
          /\ post' = Put(post, "stitched", s.ret)
          /\ pc' = "srt"
       \/ /\ s.ret # NonePath
          /\ WriteFails
    /\ UNCHANGED PostFrame

ExportSrt ==
    /\ pc = "srt"
    /\ LET segs == srt_candidate_segments(run_meta) IN
       \/ /\ files' = IF segs # <<>> THEN segments_to_srt(files, segs, srt_path) ELSE files
          /\ post' = Put(post, "srt_candidate_segments", segs)
          /\ pc' = "index"
       \/ /\ segs # <<>>
          /\ WriteFails
    /\ UNCHANGED PostFrame

WriteIndex ==
    /\ pc = "index"
    /\ \/ /\ files' = safe_write_json(files, artifacts(post), index_path)
          /\ post' = Put(post, "artifacts", artifacts(post))
          /\ pc' = "returned"
       \/ WriteFails
    /\ UNCHANGED PostFrame

Next ==
    \/ BeginTurn
    \/ EndLoop
    \/ ClientTTS
    \/ Normalize
    \/ STT
    \/ CS
    \/ AgentTTS
    \/ FinishTurn
    \/ SaveTranscript
    \/ SaveRunMeta
    \/ SaveLogs
    \/ Stitch
    \/ ExportSrt
    \/ WriteIndex

Spec == Init /\ [][Next]_vars

----------------------------------------------------------------------------
(* CustomerServiceAgent.reply, called directly on a text.                  *)

ReplyFragments ==
    { <<"lamed", "bet", "tet">>,
      <<"lamed">>,
      <<"lamed", "bet", "qof", "shin", " ", "bet", "yod", "tet", "vav", "lamed">>,
      <<"alef", "yod", "final_kaf">>,
      <<" ", "alef", "dalet", "ayin">>,
      <<"alef", "yod", "shin", "vav", "resh">>,
      <<"samekh", "gimel", "vav", "resh">>,
      <<" ", "O", "K", " ">> }

ReplyTexts == Compose(ReplyFragments, MaxFrags)

InitReply ==
    /\ pc = "reply"
    /\ cs \in CSAgents
    /\ user_text \in ReplyTexts
    /\ cs_resp = EmptyDict
    /\ llm_call = EmptyDict
    /\ stt_call = EmptyDict
    /\ max_turns = 0
    /\ stt \in {a \in STTAgents : a.impl_name = "mock"}
    /\ turn = 0
    /\ client = 0
    /\ meta = EmptyDict
    /\ loc = EmptyDict
    /\ run_meta = <<>>
    /\ audio_paths = <<>>
    /\ conversation = <<>>
    /\ logs = <<>>
    /\ files = EmptyDict
    /\ post = EmptyDict

CallReply ==
    /\ pc = "reply"
    /\ \E llm \in LLMOutcomes, choice \in 1..Len(extra_replies) :
          /\ cs_resp' = reply(cs, llm, user_text, choice)
          /\ llm_call' = [llm |-> llm, choice |-> choice]
    /\ pc' = "replied"
    /\ UNCHANGED << max_turns, cs, stt, turn, client, meta, loc, run_meta, audio_paths,
                    conversation, logs, files, post, user_text, stt_call >>

SpecReply == InitReply /\ [][CallReply]_vars

----------------------------------------------------------------------------
(* LoggerAgent.log, called directly on entries.                            *)

LogPieces ==
    { <<"1", "2", "3">>,
      <<"4", "5", "6", "7">>,
      <<"x">>,
      <<" ">> }

LogTexts == Compose(LogPieces, MaxPieces)

LogEntries ==
    { [role |-> "stt", turn |-> 0, transcript |-> t] : t \in LogTexts }
    \cup { [role |-> "client_tts", turn |-> 0, text |-> t] : t \in LogTexts }

InitLogger ==
    /\ pc = "logger"
    /\ logs = <<>>
    /\ cs \in {a \in CSAgents : ~a.use_openai}
    /\ user_text = <<>>
    /\ cs_resp = EmptyDict
    /\ llm_call = EmptyDict
    /\ stt_call = EmptyDict
    /\ max_turns = 0
    /\ stt \in {a \in STTAgents : a.impl_name = "mock"}
    /\ turn = 0
    /\ client = 0
    /\ meta = EmptyDict
    /\ loc = EmptyDict
    /\ run_meta = <<>>
    /\ audio_paths = <<>>
    /\ conversation = <<>>
    /\ files = EmptyDict
    /\ post = EmptyDict

\* Two calls of log on a fresh recorder.
CallLog ==
    /\ pc = "logger"
    /\ Len(logs) < 2
    /\ \E entry \in LogEntries :
          /\ ~log_raises(entry)
          /\ logs' = log(logs, entry)
    /\ UNCHANGED << pc, max_turns, cs, stt, turn, client, meta, loc, run_meta, audio_paths,
                    conversation, files, post, user_text, cs_resp, llm_call, stt_call >>

SpecLogger == InitLogger /\ [][CallLog]_vars

----------------------------------------------------------------------------
(* STTAgent.transcribe, called directly on a file.                         *)

Hi == <<"h", "i">>

\* The segments an engine may give: timed in seconds, timed in ms, untimed,
\* with a start float() rejects, a bare string, without text, and with a
\* blank text and no end.
RawSegments ==
    { [start |-> Time(0), end |-> Time(900), text |-> Hi],
      [start_ms |-> Time(900), end_ms |-> Time(1800), text |-> <<" ", "y", "o", " ">>],
      [text |-> Hi],
      [start |-> BadTime, end |-> Time(900), text |-> Hi],
      "#str" :> <<"h", "i", " ">>,
      [start |-> Time(0), end |-> Time(900)],
      [start |-> Time(0), text |-> <<" ">>] }

RawSegmentLists == UNION { [1..n -> RawSegments] : n \in 0..MaxSegs }

\* What the engine may do in a direct call.
DirectEngineResults ==
    { EngineResult("raises", <<>>, <<>>),
      EngineResult("segments_none", <<>>, <<>>),
      EngineResult("other", <<>>, <<>>),
      EngineResult("text", <<>>, <<" ">>),
      EngineResult("text", <<>>, <<" ", "h", "i">>) }
    \cup { EngineResult(k, l, <<>>) : k \in {"segments", "list"}, l \in RawSegmentLists }

\* The file at the path given to transcribe: absent, a WAV of some length,
\* or a file that is no WAV.
DirectFiles ==
    { EmptyDict,
      Write(EmptyDict, client_wav(0), CorruptFile) }
    \cup { synthesize(EmptyDict, client_wav(0), ms) : ms \in {1000, 2400} }

InitSTT ==
    /\ pc = "transcribe"
    /\ stt \in STTAgents
    /\ files \in DirectFiles
    /\ stt_call = EmptyDict
    /\ llm_call = EmptyDict
    /\ cs \in {a \in CSAgents : ~a.use_openai}
    /\ user_text = <<>>
    /\ cs_resp = EmptyDict
    /\ max_turns = 0
    /\ turn = 0
    /\ client = 0
    /\ meta = EmptyDict
    /\ loc = EmptyDict
    /\ run_meta = <<>>
    /\ audio_paths = <<>>
    /\ conversation = <<>>
    /\ logs = <<>>
    /\ post = EmptyDict

CallTranscribe ==
    /\ pc = "transcribe"
    /\ \E res \in DirectEngineResults :
          stt_call' = [audio_path |-> client_wav(0), res |-> res,
                       ret |-> transcribe(stt, files, client_wav(0), res)]
    /\ pc' = "transcribed"
    /\ UNCHANGED << max_turns, cs, stt, turn, client, meta, loc, run_meta, audio_paths,
                    conversation, logs, files, post, user_text, cs_resp, llm_call >>

SpecSTT == InitSTT /\ [][CallTranscribe]_vars

----------------------------------------------------------------------------
(* Properties.                                                             *)

TurnPcs == {"client_tts", "normalize", "stt", "cs", "agent_tts", "transcript"}

AfterStitchPcs == {"srt", "index", "returned"}

\* The action of a Turn Record is a closing action.
Closing(m) == Has(m, "cs_action") /\ m["cs_action"] \in {"close", "goodbye"}

\* min(N, number of scripted client utterances, supervisor turn cap); the
\* supervisor of a run is made with the run's max_turns.
MinTurns == Min(max_turns, Min(Len(scripts), max_turns))

IndicesContiguous == \A k \in 1..Len(run_meta) : run_meta[k]["turn"] = k - 1

\* C1, as claimed: when run_conversation returns, the turn list holds exactly
\* min(N, scripted utterances, turn cap) records, the k-th with turn index k.
C1_TurnCountIsMin ==
    pc = "returned" => Len(run_meta) = MinTurns /\ IndicesContiguous

\* C1, amended: when run_conversation returns, the k-th record carries turn
\* index k, no record but the last has a closing action, and the list holds
\* exactly min(N, scripted utterances, turn cap) records unless the last
\* record has a closing action, when it holds at most that many.
C1_TurnCountIsMinUnlessClosed ==
    pc = "returned" =>
        /\ IndicesContiguous
        /\ \A k \in 1..(Len(run_meta) - 1) : ~Closing(run_meta[k])
        /\ Len(run_meta) <= MinTurns
        /\ Len(run_meta) < MinTurns => Closing(run_meta[Len(run_meta)])

\* A run returned after a closing action cut it short of min(N, ...).
C1_Witness ==
    /\ pc = "returned"
    /\ Len(run_meta) >= 1
    /\ Len(run_meta) < MinTurns
    /\ Closing(run_meta[Len(run_meta)])

\* C2, as claimed: no stage failure propagates out of run_turn or aborts the
\* run.
C2_NoStageFailureLeavesTurn == pc # "turn_raised"

\* C3, as claimed: a turn whose reply selection raised has the fixed
\* technical-difficulty message as its reply and records cs_action retry.
C3_FailedSelectionRecordsRetry ==
    \A k \in 1..Len(run_meta) :
        Has(run_meta[k], "cs_error") /\ 2 * k <= Len(conversation) =>
            /\ conversation[2 * k].text = ReplyTechnical
            /\ Get(run_meta[k], "cs_action", None) = "retry"

\* The transcript is k exchanges: client, agent, client, agent, ...
Alternates(conv, k) ==
    /\ Len(conv) = 2 * k
    /\ \A i \in 1..Len(conv) :
          conv[i].speaker = IF i % 2 = 1 THEN "client" ELSE "agent"

\* C4, as claimed: every turn run_turn was called for appended exactly two
\* transcript entries, client then agent, whichever stages failed; client is
\* the number of utterances drawn, one per call of run_turn.
C4_TwoEntriesPerTurn ==
    pc \notin TurnPcs \cup {"reply", "replied", "logger"} => Alternates(conversation, client)

\* C5, as claimed: the loop is left only when the turn limit is reached, the
\* client has no utterance left or the last turn's action is a closing
\* action, and no turn follows a closing action.
C5_LoopStopsOnlyOnItsConditions ==
    /\ \A k \in 1..(Len(run_meta) - 1) : ~Closing(run_meta[k])
    /\ pc \notin TurnPcs \cup {"loop", "reply", "replied", "logger"} =>
          \/ turn >= max_turns
          \/ client >= Len(scripts) /\ Len(run_meta) = Len(scripts)
          \/ Len(run_meta) >= 1 /\ Closing(run_meta[Len(run_meta)])

\* AudioSegment.from_file succeeds on a collected path.
Readable(p) == Exists(files, p) /\ Decodes(files, p)

\* C6: when no collected audio path names an existing, readable file,
\* stitch_audio returns no path and writes no file, and the artifact index
\* records the stitched audio as null.
C6_NothingToStitch ==
    pc \in AfterStitchPcs /\ (\A i \in 1..Len(audio_paths) : ~Readable(audio_paths[i])) =>
        /\ post["stitched"] = NonePath
        /\ ~Exists(files, stitched_path)
        /\ pc = "returned" => files[index_path].obj.stitched_audio = NonePath

\* A run returned whose collected paths all name unreadable files.
C6_Witness ==
    /\ pc = "returned"
    /\ audio_paths # <<>>
    /\ \A i \in 1..Len(audio_paths) : ~Readable(audio_paths[i])
    /\ files[index_path].obj.stitched_audio = NonePath

\* The place of a per-turn audio file in turn order, the client's before the
\* agent's.
Rank(p) ==
    CHOOSE r \in 0..(2 * MaxTurns + 1) :
        p = IF r % 2 = 0 THEN client_wav(r \div 2) ELSE agent_wav(r \div 2)

ReadablePaths == SelectSeq(audio_paths, Readable)

RECURSIVE TotalLen(_)
TotalLen(paths) ==
    IF paths = <<>> THEN 0 ELSE AudioLen(files[Head(paths)].audio) + TotalLen(Tail(paths))

\* C7: the collected paths are in turn order, the client's before the
\* agent's; the stitched file is the readable ones in that order with one
\* 150 ms silence between each two, L + 150 * (n - 1) ms long.
C7_StitchedInOrderWithGaps ==
    /\ \A i, j \in 1..Len(audio_paths) :
          i < j => Rank(audio_paths[i]) < Rank(audio_paths[j])
    /\ pc \in AfterStitchPcs /\ post["stitched"] # NonePath =>
          LET out == files[stitched_path].audio
              n == Len(ReadablePaths)
          IN  /\ n >= 1
              /\ Len(out) = 2 * n - 1
              /\ \A i \in 1..n : <<out[2 * i - 1]>> = files[ReadablePaths[i]].audio
              /\ \A i \in 1..(n - 1) : out[2 * i] = [src |-> "silence", ms |-> 150]
              /\ AudioLen(out) = TotalLen(ReadablePaths) + 150 * (n - 1)

\* A run returned that stitched two or more segments and skipped a file.
C7_Witness ==
    /\ pc = "returned"
    /\ post["stitched"] # NonePath
    /\ Len(ReadablePaths) >= 2
    /\ \E i \in 1..Len(audio_paths) : ~Readable(audio_paths[i])
    /\ AudioLen(files[stitched_path].audio) >= 2150

\* t has n or more consecutive digits.
HasDigitRun(t, n) ==
    \E i \in 1..(Len(t) - n + 1) : \A j \in 0..(n - 1) : IsDigit(t[i + j])

\* C8, as claimed: no stored log entry has a text or transcript field with 6
\* or more consecutive digits.
C8_NoLongDigitRunStored ==
    \A i \in 1..Len(logs) : \A k \in RedactedKeys :
        Has(logs[i], k) /\ IsStr(logs[i][k]) => ~HasDigitRun(logs[i][k], 6)

KwHow == <<"alef", "yod", "final_kaf">>

KwCancel == <<"lamed", "bet", "tet", "lamed">>

\* The reply selector answered by its rule table.
RuleBased == pc = "replied" /\ ~(cs.use_openai /\ cs.litellm)

\* C9, as claimed: every text that contains "how" gets action explain.
C9_HowAlwaysExplains ==
    RuleBased /\ Contains(user_text, KwHow) => cs_resp.action = "explain"

\* C9, amended: every text that contains "how" and matches neither the
\* cancellation rule nor the confirmation rule gets action explain.
C9_HowExplainsUnlessEarlierRule ==
    RuleBased /\ Contains(user_text, KwHow)
              /\ ~re_search(CancelPatterns, user_text)
              /\ ~re_search(ConfirmPatterns, user_text) => cs_resp.action = "explain"

\* A text with "how" and a completion keyword, and no earlier rule's keyword,
\* was answered.
C9_Witness ==
    /\ RuleBased
    /\ Contains(user_text, KwHow)
    /\ re_search(DonePatterns, user_text)
    /\ ~re_search(CancelPatterns, user_text)
    /\ ~re_search(ConfirmPatterns, user_text)
    /\ cs_resp.action = "explain"

\* C10: the rules are tried in the order cancellation, confirmation, how-to,
\* completion, the first whose pattern occurs gives the reply, the default
\* reply is given when none occurs; so a text with the cancellation keyword
\* gets action verify.
C10_FirstMatchingRuleWins ==
    RuleBased =>
        LET cancel == re_search(CancelPatterns, user_text)
            confirm == re_search(ConfirmPatterns, user_text)
            howto == re_search(HowToPatterns, user_text)
            done == re_search(DonePatterns, user_text)
        IN  /\ cancel => cs_resp = [reply |-> ReplyVerifyId, action |-> "verify"]
            /\ ~cancel /\ confirm => cs_resp = [reply |-> ReplyMailAddress, action |-> "verify"]
            /\ ~cancel /\ ~confirm /\ howto =>
                  cs_resp = [reply |-> ReplyPolicy, action |-> "explain"]
            /\ ~cancel /\ ~confirm /\ ~howto /\ done =>
                  \E i \in 1..Len(extra_replies) : cs_resp = extra_replies[i]
            /\ ~cancel /\ ~confirm /\ ~howto /\ ~done =>
                  cs_resp = [reply |-> ReplyDefault, action |-> "explain"]
            /\ Contains(user_text, KwCancel) => cs_resp.action = "verify"

\* A text with the cancellation keyword and a how-to keyword was answered
\* with verify.
C10_Witness ==
    /\ RuleBased
    /\ Contains(user_text, KwCancel)
    /\ re_search(HowToPatterns, user_text)
    /\ cs_resp.action = "verify"

\* The actions of the module docstring of agents/cs_agent.py.
ReplyActions == {"verify", "explain", "confirm", "close", "retry"}

\* C11, as claimed: every value CustomerServiceAgent.reply returns has a
\* reply that is a string and an action that is one of verify, explain,
\* confirm, close, retry.
C11_ReplyWellFormed ==
    pc = "replied" =>
        /\ Has(cs_resp, "reply") /\ IsStr(cs_resp["reply"])
        /\ Has(cs_resp, "action") /\ cs_resp["action"] \in ReplyActions

\* The generative call of the answered call failed: the library is missing,
\* the completion raised, or its content was unparsable or malformed.
GenerativeFailed ==
    /\ pc = "replied"
    /\ cs.use_openai
    /\ ~cs.litellm \/ call_openai(llm_call["llm"]).raised

SegmentKeys == {"start", "end", "text"}

\* C13, as claimed: transcribe never raises and returns a record with text,
\* segments and language in which every segment has start, end and text,
\* whatever the backend state and the shape of the engine's result.
C13_TranscribeNeverRaises ==
    pc = "transcribed" =>
        /\ ~stt_call["ret"].raised
        /\ DOMAIN stt_call["ret"].out = {"text", "segments", "language"}
        /\ \A i \in 1..Len(stt_call["ret"].out.segments) :
              DOMAIN stt_call["ret"].out.segments[i] = SegmentKeys

\* No recognition engine is available: mock mode, or no model loaded.
NoEngine == stt.impl_name = "mock" \/ ~stt.model

\* The measured duration of the file at p, 0 when it cannot be read.
Measured(p) ==
    IF p \in DOMAIN files /\ files[p].kind = "wav" THEN AudioLen(files[p].audio) ELSE 0

\* C14: with no recognition engine, transcribe returns exactly one segment,
\* from 0 to the measured duration of the input (0 for an unreadable file),
\* with the placeholder text, which is also the text of the result.
C14_MockSegmentSpansFile ==
    pc = "transcribed" /\ NoEngine =>
        /\ ~stt_call["ret"].raised
        /\ stt_call["ret"].out.segments =
              << [start |-> 0, end |-> Measured(stt_call["audio_path"]), text |-> MockTranscript] >>
        /\ stt_call["ret"].out.text = MockTranscript

\* A backend without a model transcribed a readable file of 2400 ms.
C14_Witness ==
    /\ pc = "transcribed"
    /\ stt.impl_name # "mock" /\ ~stt.model
    /\ Measured(stt_call["audio_path"]) = 2400
    /\ stt_call["ret"].out.segments[1]["end"] = 2400

\* The places of the newlines of t.
Newlines(t) == {i \in 1..Len(t) : t[i] = "\n"}

\* The place of the k-th newline of t; 0 for k = 0, past the end of t when t
\* has fewer.
NewlineAt(t, k) ==
    IF k = 0 THEN 0
    ELSE IF k > Cardinality(Newlines(t)) THEN Len(t) + 1
    ELSE CHOOSE i \in Newlines(t) : Cardinality({j \in Newlines(t) : j < i}) = k - 1

\* text.split("\n")
SplitLines(t) ==
    [k \in 1..(Cardinality(Newlines(t)) + 1) |->
        SubSeq(t, NewlineAt(t, k - 1) + 1, NewlineAt(t, k) - 1)]

\* The timed segments of the first k Turn Records, in turn order and within
\* a turn in their recorded order.
RECURSIVE TimedUpTo(_)
TimedUpTo(k) ==
    IF k = 0 THEN <<>>
    ELSE TimedUpTo(k - 1) \o SelectSeq(Get(run_meta[k], "stt_segments", <<>>), timed)

AllTimed == TimedUpTo(Len(run_meta))

AfterSrtPcs == {"index", "returned"}

BlockText(i, seg) ==
    Decimal(i) \o <<"\n">> \o fmt_ts(seg["start"]) \o Arrow \o fmt_ts(seg["end"]) \o <<"\n">>
    \o strip(replace_newlines(seg["text"])) \o <<"\n", "\n">>

RECURSIVE BlocksText(_, _)
BlocksText(segs, i) ==
    IF i > Len(segs) THEN <<>> ELSE BlockText(i, segs[i]) \o BlocksText(segs, i + 1)

\* C16, as claimed: the subtitle file is its blocks one after the other,
\* every block, the last included, being
\* '<index>\n<start> --> <end>\n<text>\n\n'.
C16_EveryBlockEndsWithBlankLine ==
    pc \in AfterSrtPcs /\ Exists(files, srt_path) =>
        files[srt_path].text = BlocksText(AllTimed, 1)

IndexNames == {"transcript_json", "logs", "run_meta", "stitched_audio", "srt"}

\* C17: the artifact index of a returned run has exactly the five names; the
\* transcript, logs and run metadata entries are the paths of the files the
\* run wrote; the stitched audio and subtitle entries are the paths of the
\* files the run wrote, and null exactly when it wrote none.
C17_IndexNamesWrittenFiles ==
    pc = "returned" =>
        LET idx == files[index_path].obj IN
        /\ DOMAIN idx = IndexNames
        /\ \A n \in IndexNames : idx[n] # NonePath => Exists(files, idx[n])
        /\ idx["transcript_json"] = transcript_json
        /\ files[transcript_json] = JsonFile(conversation)
        /\ idx["logs"] = logs_path
        /\ files[logs_path] = JsonFile(logs)
        /\ idx["run_meta"] = run_meta_path
        /\ files[run_meta_path].obj.turns = run_meta
        /\ idx["stitched_audio"] = IF Exists(files, stitched_path) THEN stitched_path ELSE NonePath
        /\ idx["srt"] = IF Exists(files, srt_path) THEN srt_path ELSE NonePath

\* A run returned that exported subtitles and stitched nothing.
C17_Witness ==
    /\ pc = "returned"
    /\ files[index_path].obj["stitched_audio"] = NonePath
    /\ files[index_path].obj["srt"] = srt_path
    /\ Exists(files, srt_path)

\* The directory the layout assigns to the file at p.
LayoutDir(p) ==
    IF files[p].kind \in {"wav", "corrupt"} THEN AUDIO_DIR
    ELSE IF files[p].kind = "srt" THEN TRANS_DIR
    ELSE IF p.name = transcript_json.name THEN TRANS_DIR
    ELSE IF p.name = logs_path.name THEN LOG_DIR
    ELSE METADATA_DIR

\* C18, as claimed: every file of the output directory lies in the directory
\* the layout assigns to its kind, the stitched conversation file under
\* audio/ with the per-turn files.
C18_FilesInAssignedDirs == \A p \in DOMAIN files : p.dir = LayoutDir(p)

\* The persistence steps after the loop, in order: the key each sets in the
\* locals, the file each writes, and whether each always writes.
PersistSteps ==
    << [key |-> "transcript_json", path |-> transcript_json, always |-> TRUE],
       [key |-> "run_meta_path", path |-> run_meta_path, always |-> TRUE],
       [key |-> "logs_path", path |-> logs_path, always |-> TRUE],
       [key |-> "stitched", path |-> stitched_path, always |-> FALSE],
       [key |-> "srt_candidate_segments", path |-> srt_path, always |-> FALSE],
       [key |-> "artifacts", path |-> index_path, always |-> TRUE] >>

\* C19: a persistence step that fails ends the run: no step after a step
\* that did not complete has written its file, a run that raised in a write
\* has written no artifact index, and a returned run completed every step.
C19_WriteFailureAbortsRun ==
    /\ \A i, j \in 1..Len(PersistSteps) :
          /\ i < j
          /\ \/ ~Has(post, PersistSteps[i].key)
             \/ PersistSteps[i].always /\ ~Exists(files, PersistSteps[i].path)
          => ~Exists(files, PersistSteps[j].path)
    /\ pc = "write_raised" =>
          /\ ~Exists(files, index_path)
          /\ \E i \in 1..Len(PersistSteps) : ~Has(post, PersistSteps[i].key)
    /\ pc = "returned" => \A i \in 1..Len(PersistSteps) : Has(post, PersistSteps[i].key)

\* The write of the stitched audio failed after the three JSON files were
\* written.
C19_Witness ==
    /\ pc = "write_raised"
    /\ Exists(files, logs_path)
    /\ ~Has(post, "stitched")
    /\ \E i \in 1..Len(audio_paths) : Readable(audio_paths[i])
    /\ ~Exists(files, srt_path)

\* What recognition gave for the text: nothing when it raised.
Recognized == IF stt_call["ret"].raised THEN <<>> ELSE strip(stt_call["ret"].out.text)

\* The text the turn goes on with, for a turn of the client text ct.
GoesOnWith(ct) == IF Recognized = <<>> THEN ct ELSE Recognized

AfterCSPcs == {"agent_tts", "transcript"}

RulePath == ~(cs.use_openai /\ cs.litellm)

ClosingActions == {"close", "goodbye"}

\* C21: with the generative path disabled, the rule table gives no closing
\* action for any text and any random choice; so no reply of a run and no
\* Turn Record has a closing action, and a run that returns has run exactly
\* min(max_turns, number of scripted utterances) turns.
C21_RulePathNeverCloses ==
    RulePath =>
        /\ pc = "loop" /\ turn = 0 =>
              \A t \in ReplyTexts : \A choice \in 1..Len(extra_replies) :
                  reply(cs, [kind |-> "raises", data |-> EmptyDict], t, choice).action
                      \notin ClosingActions
        /\ pc \in AfterCSPcs => cs_resp["action"] \notin ClosingActions
        /\ \A k \in 1..Len(run_meta) : ~Closing(run_meta[k])
        /\ pc = "returned" => Len(run_meta) = Min(max_turns, Len(scripts))

\* A rule-path run returned after both scripted utterances, max_turns being
\* larger.
C21_Witness ==
    /\ RulePath
    /\ pc = "returned"
    /\ max_turns > Len(scripts)
    /\ Len(run_meta) = Len(scripts)
    /\ \A k \in 1..Len(run_meta) : run_meta[k]["cs_action"] \in {"verify", "explain"}

\* C22: in a run whose recognizer is in mock mode, every turn's recognized
\* text is the mock placeholder; the Reply Selector's input and the
\* transcript's client entry are the placeholder and not the client's text,
\* and a rule-based reply is the default rule's.
C22_MockRunHearsPlaceholder ==
    NoEngine =>
        /\ pc \in AfterCSPcs =>
              /\ meta["stt_text"] = MockTranscript
              /\ user_text = MockTranscript
              /\ user_text # meta["client_text"]
              /\ RulePath => cs_resp = [reply |-> ReplyDefault, action |-> "explain"]
        /\ \A k \in 1..Len(run_meta) :
              /\ run_meta[k]["stt_text"] = MockTranscript
              /\ ~Has(run_meta[k], "stt_error")
              /\ RulePath => /\ run_meta[k]["cs_action"] = "explain"
                              /\ run_meta[k]["reply_text"] = ReplyDefault
              /\ 2 * k <= Len(conversation) =>
                    /\ conversation[2 * k - 1] = [speaker |-> "client", text |-> MockTranscript]
                    /\ conversation[2 * k - 1].text # run_meta[k]["client_text"]

\* A mock-mode, rule-path run returned after two turns; the client's first
\* utterance has a cancellation keyword, and was answered by the default
\* rule.
C22_Witness ==
    /\ NoEngine /\ RulePath
    /\ pc = "returned"
    /\ Len(run_meta) = 2
    /\ re_search(CancelPatterns, lower(strip(run_meta[1]["client_text"])))
    /\ run_meta[1]["cs_action"] = "explain"
    /\ conversation[1].text = MockTranscript
    /\ conversation[3].text = MockTranscript

====
